---- MODULE Spec2Model ----
(***************************************************************************)
(* RAG MCP server (src/src/rag_mcp_server.py): the lifecycle of the        *)
(* process-wide FAISS index (initialize_resources / create_rag), the       *)
(* rag_search tool that reads it, and the retrieval pipeline               *)
(* (get_relevant_documents with maximal marginal relevance).               *)
(*                                                                         *)
(* A text is a small integer.  Its embedding is a unit vector in one of    *)
(* six directions 60 degrees apart, so that cosines are exact halves and   *)
(* every score is an integer (cosines are kept doubled, lambda_mult in     *)
(* tenths).  A document of an index is named by its position in the        *)
(* index's docstore, so two chunks with the same text are two documents.   *)
(***************************************************************************)
EXTENDS Integers, Sequences, FiniteSets, TLC

\* ------------------------------------------------------------------ bounds
NumInit == 2        \* tasks that call initialize_resources in one process run
NumReaders == 1     \* tasks that call the rag_search tool
MaxRestarts == 1    \* process restarts (the index directory survives them)
MaxDocs == 3        \* chunks of an index handed to get_relevant_documents
MaxCandidates == 4  \* candidates handed to the MMR stage when it is checked step by step
MaxText == 2        \* texts of those chunks and of the queries: 0..MaxText

Callers == 1..NumInit
Readers == 1..NumReaders
Texts == 0..MaxText

\* ------------------------------------------------------------ value shapes
\* vectorstore: Optional[FAISS]
None == [kind |-> "none", docs |-> <<>>]
FAISS(chunks) == [kind |-> "index", docs |-> chunks]

\* INDEX_DIR / "index.faiss" on disk: absent, written by a completed
\* save_local, or left without its docstore by an interrupted save_local
BlobAbsent == [kind |-> "absent", docs |-> <<>>]
BlobComplete(chunks) == [kind |-> "complete", docs |-> chunks]
BlobPartial == [kind |-> "partial", docs |-> <<>>]

SeqsUpTo(S, n) == UNION {[1..m -> S] : m \in 0..n}

\* URLS: the three pages of the corpus, named 1..3
URLS == <<1, 2, 3>>

\* WebBaseLoader(u).load(): the page of u as one document, or no document;
\* a page is the sequence of passages the splitter will cut it into
WebBaseLoader_load(u) == {<<>>, <<[i \in 1..(1 + (u % 2)) |-> u]>>}

\* sum((WebBaseLoader(u).load() for u in urls), []): every list the loader
\* can return for the URLs from the i-th on
RECURSIVE LoaderResultsFrom(_)
LoaderResultsFrom(i) ==
    IF i > Len(URLS) THEN {<<>>}
    ELSE {d \o rest : d \in WebBaseLoader_load(URLS[i]),
                      rest \in LoaderResultsFrom(i + 1)}
LoaderResults == LoaderResultsFrom(1)

RECURSIVE Flatten(_)
Flatten(ps) == IF ps = <<>> THEN <<>> ELSE Head(ps) \o Flatten(Tail(ps))

\* splitter.split_documents(docs): the chunks of every page, in page order
split_documents(docs) == Flatten(docs)

\* --------------------------------------------------- retrieval pipeline
Min(a, b) == IF a <= b THEN a ELSE b
Range(s) == {s[i] : i \in DOMAIN s}
SetMax(S) == CHOOSE x \in S : \A y \in S : y <= x
SetMin(S) == CHOOSE x \in S : \A y \in S : x <= y

\* search_rag defaults: fetch_k = 20, lambda_mult = 0.7 (in tenths)
fetch_k_default == 20
lambda_mult_default == 7
LambdaValues == {0, lambda_mult_default, 10}

\* embeddings.embed_query(text): deterministic, a direction 0..5 (x 60 degrees)
embed_query(text) == text % 6

\* cosine_similarity of two embeddings, doubled: 2, 1, -1, -2 (exact; the
\* rounding of the library's floating-point arithmetic is not modelled)
cosine_similarity(a, b) ==
    LET d == (a - b) % 6 IN
    CASE d = 0 -> 2
      [] d \in {1, 5} -> 1
      [] d \in {2, 4} -> -1
      [] OTHER -> -2

\* the score of FAISS's flat L2 index, doubled: |a - b|^2 = 2 - 2 cos(a, b)
\* for unit vectors (smaller = nearer)
l2_distance(a, b) == 4 - 2 * cosine_similarity(a, b)

\* vectorstore.similarity_search_with_score_by_vector(query_emb, k=fetch_k),
\* reduced to its documents: the fetch_k nearest documents of the store,
\* nearest first; the order among equally near documents is FAISS's own, so
\* every order is a possible result.  `rem` are the documents not yet listed.
RECURSIVE nearest(_, _, _, _)
nearest(store, query_emb, rem, fetch_k) ==
    IF fetch_k <= 0 \/ rem = {} THEN {<<>>}
    ELSE LET dist(j) == l2_distance(query_emb, embed_query(store[j]))
             least == SetMin({dist(j) : j \in rem})
         IN UNION {{<<j>> \o r : r \in nearest(store, query_emb, rem \ {j}, fetch_k - 1)} :
                     j \in {x \in rem : dist(x) = least}}

similarity_search_with_score_by_vector(store, query_emb, fetch_k) ==
    nearest(store, query_emb, DOMAIN store, fetch_k)

\* similarity_search called without k: FAISS's default of 4 documents
similarity_search_default_k(store, query, k) ==
    similarity_search_with_score_by_vector(store, embed_query(query), 4)

\* vectorstore.similarity_search(query, k): the store embeds the query text
\* itself and searches as above
similarity_search(store, query, k) ==
    similarity_search_with_score_by_vector(store, embed_query(query), k)

\* np.argmin in its place: the first index holding the minimum
np_argmin(xs) == SetMin({i \in DOMAIN xs : xs[i] = SetMin(Range(xs))})

\* np.argmax: the first index holding the maximum
np_argmax(xs) == SetMin({i \in DOMAIN xs : xs[i] = SetMax(Range(xs))})

\* a loop that does not skip the documents already selected
mmr_skip_none(i, idxs) == FALSE

\* `if i in idxs: continue`
mmr_skip(i, idxs) == i \in Range(idxs)

\* the comparison written >=, which lets a later equal score win
mmr_improves_or_equal(equation_score, best_score) == equation_score >= best_score

\* `if equation_score > best_score`
mmr_improves(equation_score, best_score) == equation_score > best_score

\* the `for i, query_score in enumerate(similarity_to_query)` loop of one
\* MMR round: idx_to_add, 0 while best_score is still -inf
RECURSIVE mmr_scan(_, _, _, _)
mmr_scan(i, scores, idxs, idx_to_add) ==
    IF i > Len(scores) THEN idx_to_add
    ELSE IF mmr_skip(i, idxs) THEN mmr_scan(i + 1, scores, idxs, idx_to_add)
    ELSE IF idx_to_add = 0 \/ mmr_improves(scores[i], scores[idx_to_add])
           THEN mmr_scan(i + 1, scores, idxs, i)
           ELSE mmr_scan(i + 1, scores, idxs, idx_to_add)

\* the redundancy added to the score instead of subtracted from it
equation_score_plus(lambda_mult, query_score, redundant_score) ==
    lambda_mult * query_score + (10 - lambda_mult) * redundant_score

\* equation_score = lambda_mult * query_score - (1 - lambda_mult) * redundant_score
\* (times ten: lambda_mult is in tenths)
equation_score(lambda_mult, query_score, redundant_score) ==
    lambda_mult * query_score - (10 - lambda_mult) * redundant_score

\* the redundancy of a candidate taken as its least similarity to a
\* selected document instead of its greatest
RECURSIVE mmr_loop_least_redundancy(_, _, _, _, _)
mmr_loop_least_redundancy(similarity_to_query, embedding_list, lambda_mult, k, idxs) ==
    IF Len(idxs) >= Min(k, Len(embedding_list)) THEN idxs
    ELSE LET redundant_score(i) ==
                 SetMin({cosine_similarity(embedding_list[i], embedding_list[j]) :
                           j \in Range(idxs)})
             scores == [i \in DOMAIN embedding_list |->
                          equation_score(lambda_mult, similarity_to_query[i],
                                         redundant_score(i))]
         IN mmr_loop_least_redundancy(similarity_to_query, embedding_list, lambda_mult, k,
                     Append(idxs, mmr_scan(1, scores, idxs, 0)))

\* the `while len(idxs) < min(k, len(embedding_list))` loop
RECURSIVE mmr_loop(_, _, _, _, _)
mmr_loop(similarity_to_query, embedding_list, lambda_mult, k, idxs) ==
    IF Len(idxs) >= Min(k, Len(embedding_list)) THEN idxs
    ELSE LET redundant_score(i) ==
                 SetMax({cosine_similarity(embedding_list[i], embedding_list[j]) :
                           j \in Range(idxs)})
             scores == [i \in DOMAIN embedding_list |->
                          equation_score(lambda_mult, similarity_to_query[i],
                                         redundant_score(i))]
         IN mmr_loop(similarity_to_query, embedding_list, lambda_mult, k,
                     Append(idxs, mmr_scan(1, scores, idxs, 0)))

\* langchain's maximal_marginal_relevance(query_embedding, embedding_list,
\* lambda_mult, k): the indices selected, in selection order
maximal_marginal_relevance(query_embedding, embedding_list, lambda_mult, k) ==
    IF Min(k, Len(embedding_list)) <= 0 THEN <<>>
    ELSE LET similarity_to_query ==
                 [i \in DOMAIN embedding_list |->
                    cosine_similarity(query_embedding, embedding_list[i])]
         IN mmr_loop(similarity_to_query, embedding_list, lambda_mult, k,
                     <<np_argmax(similarity_to_query)>>)

\* the MMR stage entered at `len(docs) >= num_documents`
get_relevant_documents_mmr_on_equal(query, store, docs, num_documents, lambda_mult) ==
    IF Len(docs) >= num_documents
      THEN LET doc_embs == [i \in DOMAIN docs |-> embed_query(store[docs[i]])]
               idxs == maximal_marginal_relevance(embed_query(query), doc_embs,
                                                  lambda_mult, num_documents)
           IN [i \in DOMAIN idxs |-> docs[idxs[i]]]
      ELSE docs

\* get_relevant_documents after the search returned `docs`:
\* `if len(docs) > num_documents:` rerank with MMR, else return docs
get_relevant_documents(query, store, docs, num_documents, lambda_mult) ==
    IF Len(docs) > num_documents
      THEN LET doc_embs == [i \in DOMAIN docs |-> embed_query(store[docs[i]])]
               idxs == maximal_marginal_relevance(embed_query(query), doc_embs,
                                                  lambda_mult, num_documents)
           IN [i \in DOMAIN idxs |-> docs[idxs[i]]]
      ELSE docs

\* what search_rag has got from generate_response_from_docs, if anything
NoResponse == [kind |-> "none", context |-> <<>>, invoked |-> FALSE]

\* a direct call of get_relevant_documents or of search_rag: its arguments,
\* the documents retrieved, and for search_rag the model type it was given,
\* how create_llm and ainvoke behaved, and the response; `search` tells
\* which search gave the candidates, or which one raised
NoQuery ==
    [pc |-> "none", store |-> <<>>, query |-> 0, num_documents |-> 0,
     fetch_k |-> 0, lambda_mult |-> 0, docs |-> <<>>, out |-> <<>>,
     llm_type |-> "none", llm |-> "none", response |-> NoResponse,
     search |-> "none"]

\* one rag_search call: arguments, the index it was handed, the documents
\* retrieved, the answer, and (history) what it has invoked so far;
\* for a rag_status call: the answer and the chunk count in it
NoAnswer == [kind |-> "none", docs |-> <<>>]
NoSearch ==
    [query |-> 0, num_documents |-> 0,
     ready |-> FALSE, embedded |-> FALSE, searched |-> FALSE,
     generated |-> FALSE, docs |-> <<>>, answer |-> NoAnswer, chunks |-> 0]

\* db_mcp_server in a fresh process: its globals _is_initialized and
\* _initialization_lock, the position of each initialize_resources call,
\* what each server_status call returned, (history) the calls of
\* prepare_classicmodels and the message it returned, the restarts so far,
\* and the MySQL database, which outlives the process
DbFresh(database, restarts_so_far) ==
    [_is_initialized |-> FALSE, _initialization_lock |-> 0,
     pc |-> [c \in Callers |-> "idle"],
     status |-> [r \in Readers |-> "none"],
     prepare_classicmodels_calls |-> 0, message |-> "none",
     restarts |-> restarts_so_far, database |-> database]
NoDb == DbFresh("empty", 0)

\* per-call bookkeeping of one initialize_resources call (history only)
NoAttempt ==
    [ran |-> FALSE, sawBlob |-> FALSE, seen |-> BlobAbsent, fetched |-> FALSE,
     split |-> FALSE, embedded |-> FALSE, persisted |-> FALSE, error |-> "none"]

VARIABLES
    vectorstore,            \* module global vectorstore
    _is_initialized,        \* module global _is_initialized
    _initialization_lock,   \* 0 = free, else the caller holding it
    blob,                   \* INDEX_DIR/index.faiss
    ipc,                    \* position of each initialize_resources call
    tmp,                    \* create_rag locals of each call: docs, chunks, vs
    attempt,                \* history of each call
    create_rag_calls,       \* history: create_rag invocations in this run
    restarts,               \* history: process restarts so far
    rpc,                    \* position of each rag_search call
    rs,                     \* arguments, locals and result of each rag_search call
    gq,                     \* a direct get_relevant_documents call
    db                      \* the DB server: its globals, its calls, the database

lifecycle_vars == <<vectorstore, _is_initialized, _initialization_lock, blob,
                    ipc, tmp, attempt, create_rag_calls, restarts, rpc, rs, db>>

reader_vars == <<rpc, rs>>

vars == <<vectorstore, _is_initialized, _initialization_lock, blob, ipc, tmp,
          attempt, create_rag_calls, restarts, rpc, rs, gq, db>>

LifecycleInit ==
    /\ vectorstore = None
    /\ _is_initialized = FALSE
    /\ _initialization_lock = 0
    /\ blob \in {BlobAbsent, BlobPartial} \cup
                {BlobComplete(split_documents(d)) : d \in LoaderResults \ {<<>>}}
    /\ ipc = [c \in Callers |-> "idle"]
    /\ tmp = [c \in Callers |-> <<>>]
    /\ attempt = [c \in Callers |-> NoAttempt]
    /\ create_rag_calls = 0
    /\ restarts = 0
    /\ rpc = [r \in Readers |-> "idle"]
    /\ rs = [r \in Readers |-> NoSearch]
    /\ gq = NoQuery
    /\ db = NoDb

\* ------------------------------------------------- initialize_resources
\* a task calls initialize_resources and reaches `async with` on the lock
initialize_resources_call(c) ==
    /\ ipc[c] = "idle"
    /\ ipc' = [ipc EXCEPT ![c] = "lock"]
    /\ UNCHANGED <<vectorstore, _is_initialized, _initialization_lock, blob,
                   tmp, attempt, create_rag_calls, restarts, reader_vars, gq, db>>

\* the flag set before `await create_rag()` instead of after it
initialize_resources_enter_flag_first(c) ==
    /\ ipc[c] = "lock"
    /\ _initialization_lock = 0
    /\ IF _is_initialized
         THEN /\ ipc' = [ipc EXCEPT ![c] = "returned"]
              /\ UNCHANGED <<_initialization_lock, create_rag_calls, attempt,
                             _is_initialized>>
         ELSE /\ ipc' = [ipc EXCEPT ![c] = "exists"]
              /\ _initialization_lock' = c
              /\ _is_initialized' = TRUE
              /\ create_rag_calls' = create_rag_calls + 1
              /\ attempt' = [attempt EXCEPT ![c].ran = TRUE]
    /\ UNCHANGED <<vectorstore, blob, tmp, restarts, reader_vars, gq, db>>

\* the body entered without the lock being awaited
initialize_resources_enter_unlocked(c) ==
    /\ ipc[c] = "lock"
    /\ IF _is_initialized
         THEN /\ ipc' = [ipc EXCEPT ![c] = "returned"]
              /\ UNCHANGED <<_initialization_lock, create_rag_calls, attempt>>
         ELSE /\ ipc' = [ipc EXCEPT ![c] = "exists"]
              /\ _initialization_lock' = c
              /\ create_rag_calls' = create_rag_calls + 1
              /\ attempt' = [attempt EXCEPT ![c].ran = TRUE]
    /\ UNCHANGED <<vectorstore, _is_initialized, blob, tmp, restarts, reader_vars, gq, db>>

\* the body without its `if _is_initialized: return`
initialize_resources_enter_unchecked(c) ==
    /\ ipc[c] = "lock"
    /\ _initialization_lock = 0
    /\ ipc' = [ipc EXCEPT ![c] = "exists"]
    /\ _initialization_lock' = c
    /\ create_rag_calls' = create_rag_calls + 1
    /\ attempt' = [attempt EXCEPT ![c].ran = TRUE]
    /\ UNCHANGED <<vectorstore, _is_initialized, blob, tmp, restarts, reader_vars, gq, db>>

\* the lock is acquired; `if _is_initialized: return` releases it at once,
\* otherwise create_rag() is entered with the lock held
initialize_resources_enter(c) ==
    /\ ipc[c] = "lock"
    /\ _initialization_lock = 0
    /\ IF _is_initialized
         THEN /\ ipc' = [ipc EXCEPT ![c] = "returned"]
              /\ UNCHANGED <<_initialization_lock, create_rag_calls, attempt>>
         ELSE /\ ipc' = [ipc EXCEPT ![c] = "exists"]
              /\ _initialization_lock' = c
              /\ create_rag_calls' = create_rag_calls + 1
              /\ attempt' = [attempt EXCEPT ![c].ran = TRUE]
    /\ UNCHANGED <<vectorstore, _is_initialized, blob, tmp, restarts, reader_vars, gq, db>>

\* an exception path that marks the resources initialized all the same
Raise_marks_initialized(c, kind) ==
    /\ ipc' = [ipc EXCEPT ![c] = "raised"]
    /\ _initialization_lock' = 0
    /\ tmp' = [tmp EXCEPT ![c] = <<>>]
    /\ _is_initialized' = TRUE
    /\ UNCHANGED vectorstore

\* an exception that leaves the lock held
Raise_keeps_lock(c, kind) ==
    /\ ipc' = [ipc EXCEPT ![c] = "raised"]
    /\ tmp' = [tmp EXCEPT ![c] = <<>>]
    /\ UNCHANGED <<vectorstore, _is_initialized, _initialization_lock>>

\* an exception leaves `async with`: the lock is released, the globals are
\* not assigned, the exception reaches the caller
Raise(c, kind) ==
    /\ ipc' = [ipc EXCEPT ![c] = "raised"]
    /\ _initialization_lock' = 0
    /\ tmp' = [tmp EXCEPT ![c] = <<>>]
    /\ UNCHANGED <<vectorstore, _is_initialized>>

\* ------------------------------------------------------------ create_rag
\* an existence test whose result is not acted on: the build path is taken
create_rag_exists_ignored(c) ==
    /\ ipc[c] = "exists"
    /\ ipc' = [ipc EXCEPT ![c] = "fetch"]
    /\ attempt' = [attempt EXCEPT ![c].sawBlob = (blob.kind # "absent"),
                                  ![c].seen = blob]
    /\ UNCHANGED <<vectorstore, _is_initialized, _initialization_lock, blob,
                   tmp, create_rag_calls, restarts, reader_vars, gq, db>>

\* (INDEX_DIR / "index.faiss").exists()
create_rag_exists(c) ==
    /\ ipc[c] = "exists"
    /\ ipc' = [ipc EXCEPT ![c] = IF blob.kind # "absent" THEN "load" ELSE "fetch"]
    /\ attempt' = [attempt EXCEPT ![c].sawBlob = (blob.kind # "absent"),
                                  ![c].seen = blob]
    /\ UNCHANGED <<vectorstore, _is_initialized, _initialization_lock, blob,
                   tmp, create_rag_calls, restarts, reader_vars, gq, db>>

\* FAISS.load_local returns the persisted index
create_rag_load(c) ==
    /\ ipc[c] = "load"
    /\ blob.kind = "complete"
    /\ tmp' = [tmp EXCEPT ![c] = blob.docs]
    /\ ipc' = [ipc EXCEPT ![c] = "assign"]
    /\ UNCHANGED <<vectorstore, _is_initialized, _initialization_lock, blob,
                   attempt, create_rag_calls, restarts, reader_vars, gq, db>>

\* a load failure that is swallowed and followed by a rebuild
create_rag_load_fallback(c) ==
    /\ ipc[c] = "load"
    /\ ipc' = [ipc EXCEPT ![c] = "fetch"]
    /\ attempt' = [attempt EXCEPT ![c].error = "load"]
    /\ UNCHANGED <<vectorstore, _is_initialized, _initialization_lock, blob,
                   tmp, create_rag_calls, restarts, reader_vars, gq, db>>

\* FAISS.load_local (or loading the embedding model) raises: the blob is
\* unreadable, or it is an index.faiss without its docstore
create_rag_load_raises(c) ==
    /\ ipc[c] = "load"
    /\ Raise(c, "load")
    /\ attempt' = [attempt EXCEPT ![c].error = "load"]
    /\ UNCHANGED <<blob, create_rag_calls, restarts, reader_vars, gq, db>>

\* docs = sum((WebBaseLoader(u).load() for u in urls), []);
\* `if not docs: raise RuntimeError`
create_rag_fetch(c) ==
    /\ ipc[c] = "fetch"
    /\ \E docs \in LoaderResults :
         IF docs = <<>>
           THEN /\ Raise(c, "empty")
                /\ attempt' = [attempt EXCEPT ![c].fetched = TRUE,
                                              ![c].error = "empty"]
           ELSE /\ ipc' = [ipc EXCEPT ![c] = "split"]
                /\ tmp' = [tmp EXCEPT ![c] = docs]
                /\ attempt' = [attempt EXCEPT ![c].fetched = TRUE]
                /\ UNCHANGED <<vectorstore, _is_initialized, _initialization_lock>>
    /\ UNCHANGED <<blob, create_rag_calls, restarts, reader_vars, gq, db>>

\* WebBaseLoader(u).load() raises (network failure)
create_rag_fetch_raises(c) ==
    /\ ipc[c] = "fetch"
    /\ Raise(c, "loader")
    /\ attempt' = [attempt EXCEPT ![c].fetched = TRUE, ![c].error = "loader"]
    /\ UNCHANGED <<blob, create_rag_calls, restarts, reader_vars, gq, db>>

\* chunks = splitter.split_documents(docs)
create_rag_split(c) ==
    /\ ipc[c] = "split"
    /\ ipc' = [ipc EXCEPT ![c] = "embed"]
    /\ tmp' = [tmp EXCEPT ![c] = split_documents(tmp[c])]
    /\ attempt' = [attempt EXCEPT ![c].split = TRUE]
    /\ UNCHANGED <<vectorstore, _is_initialized, _initialization_lock, blob,
                   create_rag_calls, restarts, reader_vars, gq, db>>

\* the index returned as soon as it is built, never saved
create_rag_embed_returns(c) ==
    /\ ipc[c] = "embed"
    /\ tmp[c] # <<>>
    /\ ipc' = [ipc EXCEPT ![c] = "assign"]
    /\ attempt' = [attempt EXCEPT ![c].embedded = TRUE]
    /\ UNCHANGED <<vectorstore, _is_initialized, _initialization_lock, blob,
                   tmp, create_rag_calls, restarts, reader_vars, gq, db>>

\* vs = FAISS.from_documents(chunks, embedding): needs at least one chunk
create_rag_embed(c) ==
    /\ ipc[c] = "embed"
    /\ tmp[c] # <<>>
    /\ ipc' = [ipc EXCEPT ![c] = "persist"]
    /\ attempt' = [attempt EXCEPT ![c].embedded = TRUE]
    /\ UNCHANGED <<vectorstore, _is_initialized, _initialization_lock, blob,
                   tmp, create_rag_calls, restarts, reader_vars, gq, db>>

\* FAISS.from_documents raises: the embedding model fails, or no chunk
create_rag_embed_raises(c) ==
    /\ ipc[c] = "embed"
    /\ Raise(c, "embedding")
    /\ attempt' = [attempt EXCEPT ![c].embedded = TRUE, ![c].error = "embedding"]
    /\ UNCHANGED <<blob, create_rag_calls, restarts, reader_vars, gq, db>>

\* INDEX_DIR.mkdir(...); vs.save_local(INDEX_DIR)
create_rag_save(c) ==
    /\ ipc[c] = "persist"
    /\ blob' = BlobComplete(tmp[c])
    /\ ipc' = [ipc EXCEPT ![c] = "assign"]
    /\ attempt' = [attempt EXCEPT ![c].persisted = TRUE]
    /\ UNCHANGED <<vectorstore, _is_initialized, _initialization_lock, tmp,
                   create_rag_calls, restarts, reader_vars, gq, db>>

\* mkdir or save_local raises: before index.faiss is written, or after it
\* and before the docstore is written
create_rag_save_raises(c) ==
    /\ ipc[c] = "persist"
    /\ Raise(c, "persist")
    /\ attempt' = [attempt EXCEPT ![c].error = "persist"]
    /\ blob' \in {blob, BlobPartial}
    /\ UNCHANGED <<create_rag_calls, restarts, reader_vars, gq, db>>

\* vectorstore = await create_rag(); _is_initialized = True; lock released
initialize_resources_assign(c) ==
    /\ ipc[c] = "assign"
    /\ vectorstore' = FAISS(tmp[c])
    /\ _is_initialized' = TRUE
    /\ _initialization_lock' = 0
    /\ ipc' = [ipc EXCEPT ![c] = "returned"]
    /\ tmp' = [tmp EXCEPT ![c] = <<>>]
    /\ UNCHANGED <<blob, attempt, create_rag_calls, restarts, reader_vars, gq, db>>

\* ------------------------------------------------------------ rag_search
\* the guard written with `and`
rag_search_not_initialized_and == ~_is_initialized /\ vectorstore # None

\* `if not _is_initialized or vectorstore is None`
rag_search_not_initialized == ~_is_initialized \/ vectorstore = None

\* rag_search made to wait until no initialization attempt holds the lock
rag_search_call_awaits_lock(r) ==
    /\ _initialization_lock = 0
    /\ rpc[r] = "idle"
    /\ \E query \in {URLS[1]}, num_documents \in {0, 1} :
         LET call == [NoSearch EXCEPT !.query = query,
                                      !.num_documents = num_documents,
                                      !.ready = (_is_initialized /\ vectorstore.kind = "index")]
         IN IF rag_search_not_initialized
              THEN /\ rs' = [rs EXCEPT ![r] =
                               [call EXCEPT !.answer = [kind |-> "not_initialized",
                                                        docs |-> <<>>]]]
                   /\ rpc' = [rpc EXCEPT ![r] = "done"]
              ELSE \E found \in similarity_search_with_score_by_vector(
                                  vectorstore.docs, embed_query(query), fetch_k_default) :
                     LET docs == get_relevant_documents(query, vectorstore.docs, found,
                                     num_documents, lambda_mult_default)
                         searched == [call EXCEPT !.embedded = TRUE, !.searched = TRUE,
                                                  !.docs = docs]
                     IN IF docs = <<>>
                          THEN /\ rs' = [rs EXCEPT ![r] =
                                           [searched EXCEPT !.answer =
                                              [kind |-> "no_information", docs |-> <<>>]]]
                               /\ rpc' = [rpc EXCEPT ![r] = "done"]
                          ELSE /\ rs' = [rs EXCEPT ![r] = searched]
                               /\ \E llm \in {"llm", "raised"} :
                                    rpc' = [rpc EXCEPT ![r] = llm]
    /\ UNCHANGED <<vectorstore, _is_initialized, _initialization_lock, blob, ipc,
                   tmp, attempt, create_rag_calls, restarts, gq, db>>

\* the tool is called (here always with the text of the first page as the
\* query; get_relevant_documents is exercised over all queries by
\* SpecQuery): rejected when the index is not ready; otherwise
\* search_rag runs get_relevant_documents (fetch_k and lambda_mult at their
\* defaults), answers at once when nothing was retrieved, and else builds
\* the model with create_llm and awaits llm.ainvoke
rag_search_call(r) ==
    /\ rpc[r] = "idle"
    /\ \E query \in {URLS[1]}, num_documents \in {0, 1} :
         LET call == [NoSearch EXCEPT !.query = query,
                                      !.num_documents = num_documents,
                                      !.ready = (_is_initialized /\ vectorstore.kind = "index")]
         IN IF rag_search_not_initialized
              THEN /\ rs' = [rs EXCEPT ![r] =
                               [call EXCEPT !.answer = [kind |-> "not_initialized",
                                                        docs |-> <<>>]]]
                   /\ rpc' = [rpc EXCEPT ![r] = "done"]
              ELSE \E found \in similarity_search_with_score_by_vector(
                                  vectorstore.docs, embed_query(query), fetch_k_default) :
                     LET docs == get_relevant_documents(query, vectorstore.docs, found,
                                     num_documents, lambda_mult_default)
                         searched == [call EXCEPT !.embedded = TRUE, !.searched = TRUE,
                                                  !.docs = docs]
                     IN IF docs = <<>>
                          THEN /\ rs' = [rs EXCEPT ![r] =
                                           [searched EXCEPT !.answer =
                                              [kind |-> "no_information", docs |-> <<>>]]]
                               /\ rpc' = [rpc EXCEPT ![r] = "done"]
                          ELSE /\ rs' = [rs EXCEPT ![r] = searched]
                               /\ \E llm \in {"llm", "raised"} :
                                    rpc' = [rpc EXCEPT ![r] = llm]
    /\ UNCHANGED <<vectorstore, _is_initialized, _initialization_lock, blob, ipc,
                   tmp, attempt, create_rag_calls, restarts, gq, db>>

\* res = await llm.ainvoke(messages); return str(res.content)
rag_search_llm_returns(r) ==
    /\ rpc[r] = "llm"
    /\ rs' = [rs EXCEPT ![r].generated = TRUE,
                        ![r].answer = [kind |-> "generated", docs |-> rs[r].docs]]
    /\ rpc' = [rpc EXCEPT ![r] = "done"]
    /\ UNCHANGED <<vectorstore, _is_initialized, _initialization_lock, blob, ipc,
                   tmp, attempt, create_rag_calls, restarts, gq, db>>

\* a generation failure that drops the index so that it be rebuilt
rag_search_llm_raises_drops_index(r) ==
    /\ rpc[r] = "llm"
    /\ rs' = [rs EXCEPT ![r].generated = TRUE,
                        ![r].answer = [kind |-> "generation_error", docs |-> rs[r].docs]]
    /\ rpc' = [rpc EXCEPT ![r] = "done"]
    /\ vectorstore' = None
    /\ _is_initialized' = FALSE
    /\ UNCHANGED <<_initialization_lock, blob, ipc,
                   tmp, attempt, create_rag_calls, restarts, gq, db>>

\* `except Exception as e: return f"応答生成エラー: {e}"`
rag_search_llm_raises(r) ==
    /\ rpc[r] = "llm"
    /\ rs' = [rs EXCEPT ![r].generated = TRUE,
                        ![r].answer = [kind |-> "generation_error", docs |-> rs[r].docs]]
    /\ rpc' = [rpc EXCEPT ![r] = "done"]
    /\ UNCHANGED <<vectorstore, _is_initialized, _initialization_lock, blob, ipc,
                   tmp, attempt, create_rag_calls, restarts, gq, db>>

\* the task awaiting llm.ainvoke is cancelled (the client gave the call up):
\* CancelledError, not an Exception, leaves rag_search
rag_search_cancelled(r) ==
    /\ rpc[r] = "llm"
    /\ rpc' = [rpc EXCEPT ![r] = "idle"]
    /\ rs' = [rs EXCEPT ![r] = NoSearch]
    /\ UNCHANGED <<vectorstore, _is_initialized, _initialization_lock, blob, ipc,
                   tmp, attempt, create_rag_calls, restarts, gq, db>>

\* the chunks counted in the index directory instead of in vectorstore
rag_status_counts_blob(r) ==
    /\ rpc[r] = "idle"
    /\ rs' = [rs EXCEPT ![r] =
                [NoSearch EXCEPT !.answer = [kind |-> "status", docs |-> <<>>],
                                 !.chunks = Len(blob.docs)]]
    /\ rpc' = [rpc EXCEPT ![r] = "done"]
    /\ UNCHANGED <<vectorstore, _is_initialized, _initialization_lock, blob, ipc,
                   tmp, attempt, create_rag_calls, restarts, gq, db>>

\* rag_status: total = vectorstore.index.ntotal if vectorstore else 0
rag_status(r) ==
    /\ rpc[r] = "idle"
    /\ rs' = [rs EXCEPT ![r] =
                [NoSearch EXCEPT !.answer = [kind |-> "status", docs |-> <<>>],
                                 !.chunks = IF vectorstore = None THEN 0
                                            ELSE Len(vectorstore.docs)]]
    /\ rpc' = [rpc EXCEPT ![r] = "done"]
    /\ UNCHANGED <<vectorstore, _is_initialized, _initialization_lock, blob, ipc,
                   tmp, attempt, create_rag_calls, restarts, gq, db>>

\* the tool call is over (answered, or create_llm raised); the task may call again
rag_search_end(r) ==
    /\ rpc[r] \in {"done", "raised"}
    /\ rpc' = [rpc EXCEPT ![r] = "idle"]
    /\ rs' = [rs EXCEPT ![r] = NoSearch]
    /\ UNCHANGED <<vectorstore, _is_initialized, _initialization_lock, blob, ipc,
                   tmp, attempt, create_rag_calls, restarts, gq, db>>

\* the process is restarted: module globals are fresh, the disk is kept
Restart ==
    /\ restarts < MaxRestarts
    /\ restarts' = restarts + 1
    /\ vectorstore' = None
    /\ _is_initialized' = FALSE
    /\ _initialization_lock' = 0
    /\ ipc' = [c \in Callers |-> "idle"]
    /\ tmp' = [c \in Callers |-> <<>>]
    /\ attempt' = [c \in Callers |-> NoAttempt]
    /\ create_rag_calls' = 0
    /\ rpc' = [r \in Readers |-> "idle"]
    /\ rs' = [r \in Readers |-> NoSearch]
    /\ UNCHANGED <<blob, gq, db>>

Init == LifecycleInit

Next ==
    \/ \E c \in Callers : initialize_resources_call(c)
    \/ \E c \in Callers : initialize_resources_enter(c)
    \/ \E c \in Callers : create_rag_exists(c)
    \/ \E c \in Callers : create_rag_load(c)
    \/ \E c \in Callers : create_rag_load_raises(c)
    \/ \E c \in Callers : create_rag_fetch(c)
    \/ \E c \in Callers : create_rag_fetch_raises(c)
    \/ \E c \in Callers : create_rag_split(c)
    \/ \E c \in Callers : create_rag_embed(c)
    \/ \E c \in Callers : create_rag_embed_raises(c)
    \/ \E c \in Callers : create_rag_save(c)
    \/ \E c \in Callers : create_rag_save_raises(c)
    \/ \E c \in Callers : initialize_resources_assign(c)
    \/ \E r \in Readers : rag_search_call(r)
    \/ \E r \in Readers : rag_search_llm_returns(r)
    \/ \E r \in Readers : rag_search_llm_raises(r)
    \/ \E r \in Readers : rag_search_cancelled(r)
    \/ \E r \in Readers : rag_status(r)
    \/ \E r \in Readers : rag_search_end(r)
    \/ Restart

Spec == Init /\ [][Next]_vars

\* ------------------------------------- one process run of the initializers
\* a step of call c once it has been made: the lock is handed to a waiting
\* call when it is free, and every step of create_rag comes to an end
initialize_resources_step(c) ==
    \/ initialize_resources_enter(c)
    \/ create_rag_exists(c)
    \/ create_rag_load(c)
    \/ create_rag_load_raises(c)
    \/ create_rag_fetch(c)
    \/ create_rag_fetch_raises(c)
    \/ create_rag_split(c)
    \/ create_rag_embed(c)
    \/ create_rag_embed_raises(c)
    \/ create_rag_save(c)
    \/ create_rag_save_raises(c)
    \/ initialize_resources_assign(c)

RunNext ==
    \/ \E c \in Callers : initialize_resources_call(c)
    \/ \E c \in Callers : initialize_resources_step(c)

\* the event loop runs every task that can run: a call that can take a step
\* takes one
SpecRun ==
    /\ Init
    /\ [][RunNext]_vars
    /\ \A c \in Callers : WF_ipc(initialize_resources_step(c))

\* ------------------------------------- get_relevant_documents, called directly
\* the index is ready and holds `store`; the arguments range over small sets
QueryInit ==
    /\ \E store \in SeqsUpTo(Texts, MaxDocs) \ {<<>>} :
         /\ vectorstore = FAISS(store)
         /\ blob = BlobComplete(store)
         /\ gq \in [pc : {"call"}, store : {store}, query : Texts,
                     num_documents : -1..(MaxDocs + 1), fetch_k : 1..(MaxDocs + 1),
                     lambda_mult : LambdaValues, docs : {<<>>}, out : {<<>>},
                     llm_type : {"none"}, llm : {"none"}, response : {NoResponse},
                     search : {"none"}]
    /\ _is_initialized = TRUE
    /\ _initialization_lock = 0
    /\ ipc = [c \in Callers |-> "returned"]
    /\ tmp = [c \in Callers |-> <<>>]
    /\ attempt = [c \in Callers |-> NoAttempt]
    /\ create_rag_calls = 1
    /\ restarts = 0
    /\ rpc = [r \in Readers |-> "idle"]
    /\ rs = [r \in Readers |-> NoSearch]
    /\ db = NoDb

\* query_emb = embed_query(query); the vector search; the MMR stage
get_relevant_documents_run ==
    /\ gq.pc = "call"
    /\ \E docs \in similarity_search_with_score_by_vector(
                      gq.store, embed_query(gq.query), gq.fetch_k) :
         gq' = [gq EXCEPT !.pc = "done", !.docs = docs, !.search = "vector",
                          !.out = get_relevant_documents(gq.query, gq.store, docs,
                                      gq.num_documents, gq.lambda_mult)]
    /\ UNCHANGED lifecycle_vars

\* similarity_search_with_score_by_vector raises AttributeError:
\* docs = vectorstore.similarity_search(query, k=fetch_k), which may raise
\* in its turn; then the MMR stage as before
get_relevant_documents_fallback ==
    /\ gq.pc = "call"
    /\ \/ \E docs \in similarity_search(gq.store, gq.query, gq.fetch_k) :
            gq' = [gq EXCEPT !.pc = "done", !.docs = docs, !.search = "text",
                             !.out = get_relevant_documents(gq.query, gq.store, docs,
                                         gq.num_documents, gq.lambda_mult)]
       \/ gq' = [gq EXCEPT !.pc = "raised", !.search = "text_raised"]
    /\ UNCHANGED lifecycle_vars

\* embed_query raises, or the vector search raises anything but
\* AttributeError: the exception leaves get_relevant_documents
get_relevant_documents_raises ==
    /\ gq.pc = "call"
    /\ \E search \in {"embed_query_raised", "vector_raised"} :
         gq' = [gq EXCEPT !.pc = "raised", !.search = search]
    /\ UNCHANGED lifecycle_vars

QueryNext ==
    \/ get_relevant_documents_run
    \/ get_relevant_documents_fallback
    \/ get_relevant_documents_raises

SpecQuery == QueryInit /\ [][QueryNext]_vars

\* ------------------- get_relevant_documents where the MMR stage always runs
\* the search returns the whole index (fetch_k is its size) and fewer
\* documents are asked for than it holds
RerankInit ==
    /\ \E store \in SeqsUpTo(Texts, MaxCandidates) \ {<<>>} :
         /\ vectorstore = FAISS(store)
         /\ blob = BlobComplete(store)
         /\ gq \in [pc : {"call"}, store : {store}, query : Texts,
                     num_documents : 1..(Len(store) - 1), fetch_k : {Len(store)},
                     lambda_mult : LambdaValues, docs : {<<>>}, out : {<<>>},
                     llm_type : {"none"}, llm : {"none"}, response : {NoResponse},
                     search : {"none"}]
    /\ _is_initialized = TRUE
    /\ _initialization_lock = 0
    /\ ipc = [c \in Callers |-> "returned"]
    /\ tmp = [c \in Callers |-> <<>>]
    /\ attempt = [c \in Callers |-> NoAttempt]
    /\ create_rag_calls = 1
    /\ restarts = 0
    /\ rpc = [r \in Readers |-> "idle"]
    /\ rs = [r \in Readers |-> NoSearch]
    /\ db = NoDb

RerankNext == get_relevant_documents_run

SpecRerank == RerankInit /\ [][RerankNext]_vars

\* ------------------------------------------------ search_rag, called directly
LLMType == {"OLLAMA", "other"}

\* create_llm(llm_type): a ChatOllama, or an exception: raised by the
\* ChatOllama constructor, or the NameError of line 24 (`logger` is not
\* defined in llm_utils) for any type but OLLAMA; None is never returned
create_llm(llm_type) ==
    IF llm_type = "OLLAMA" THEN {"ChatOllama", "raises"} ELSE {"raises"}

\* how `await llm.ainvoke(msgs)` ends
ainvoke == {"returns", "raises"}

\* d.page_content of each document, in order
page_content(store, documents) == [i \in DOMAIN documents |-> store[documents[i]]]

\* generate_response_from_docs, given what create_llm gives and how ainvoke
\* ends: kind "raised" is an exception leaving the function (create_llm is
\* called before the try block)
generate_response_from_docs(store, documents, llm, invoked) ==
    IF llm = "raises"
      THEN [kind |-> "raised", context |-> <<>>, invoked |-> FALSE]
    ELSE IF llm = "None"
      THEN [kind |-> "page_contents", context |-> page_content(store, documents),
            invoked |-> FALSE]
    ELSE IF invoked = "returns"
      THEN [kind |-> "generated", context |-> page_content(store, documents),
            invoked |-> TRUE]
    ELSE [kind |-> "generation_error", context |-> page_content(store, documents),
          invoked |-> TRUE]

\* msg = "該当する情報が見つかりませんでした。"
NoInformation == [kind |-> "no_information", context |-> <<>>, invoked |-> FALSE]

\* search_rag hands lambda_mult_default to get_relevant_documents instead of its argument
search_rag_docs_default_lambda(query, store, found, num_documents, lambda_mult) ==
    get_relevant_documents(query, store, found, num_documents, lambda_mult_default)

\* docs = get_relevant_documents(query, vectorstore, num_documents, fetch_k, lambda_mult)
search_rag_docs(query, store, found, num_documents, lambda_mult) ==
    get_relevant_documents(query, store, found, num_documents, lambda_mult)

\* what search_rag returns: (response, docs) or response
search_rag_return(response, docs, return_source_documents) ==
    IF return_source_documents
      THEN [tuple |-> TRUE, response |-> response, docs |-> docs]
      ELSE [tuple |-> FALSE, response |-> response, docs |-> <<>>]

\* d.metadata: title and source of the page the document was split from
\* (a page's passages share their text in this corpus)
metadata(store, d) == [title |-> store[d], source |-> store[d]]

\* rag_search, lines 200-207: the text made of what search_rag returned
rag_search_text(ans, return_sources, store) ==
    IF return_sources /\ ans.tuple
      THEN [response |-> ans.response, references |-> TRUE,
            srcs |-> [i \in DOMAIN ans.docs |-> metadata(store, ans.docs[i])]]
      ELSE [response |-> ans.response, references |-> FALSE, srcs |-> <<>>]

AnswerInit ==
    /\ \E store \in SeqsUpTo(Texts, MaxDocs) \ {<<>>} :
         /\ vectorstore = FAISS(store)
         /\ blob = BlobComplete(store)
         /\ gq \in [pc : {"search_rag"}, store : {store}, query : Texts,
                     num_documents : -1..MaxDocs, fetch_k : 1..MaxDocs,
                     lambda_mult : LambdaValues, docs : {<<>>}, out : {<<>>},
                     llm_type : {"none"}, llm : {"none"}, response : {NoResponse},
                     search : {"none"}]
    /\ _is_initialized = TRUE
    /\ _initialization_lock = 0
    /\ ipc = [c \in Callers |-> "returned"]
    /\ tmp = [c \in Callers |-> <<>>]
    /\ attempt = [c \in Callers |-> NoAttempt]
    /\ create_rag_calls = 1
    /\ restarts = 0
    /\ rpc = [r \in Readers |-> "idle"]
    /\ rs = [r \in Readers |-> NoSearch]
    /\ db = NoDb

\* lines 146-148
search_rag_retrieve ==
    /\ gq.pc = "search_rag"
    /\ \E found \in similarity_search_with_score_by_vector(
                       gq.store, embed_query(gq.query), gq.fetch_k) :
         gq' = [gq EXCEPT !.pc = "retrieved", !.docs = found, !.search = "vector",
                          !.out = search_rag_docs(gq.query, gq.store, found,
                                      gq.num_documents, gq.lambda_mult)]
    /\ UNCHANGED lifecycle_vars

\* an empty retrieval reported as a failure
search_rag_no_documents_raises ==
    /\ gq.pc = "retrieved"
    /\ gq.out = <<>>
    /\ gq' = [gq EXCEPT !.pc = "raised"]
    /\ UNCHANGED lifecycle_vars

\* the `if not docs` check left out: generation on an empty context
search_rag_no_documents_generates ==
    /\ gq.pc = "retrieved"
    /\ gq.out = <<>>
    /\ gq' = [gq EXCEPT !.pc = "returned", !.llm_type = "OLLAMA", !.llm = "returns",
                        !.response = generate_response_from_docs(
                                         gq.store, gq.out, "ChatOllama", "returns")]
    /\ UNCHANGED lifecycle_vars

\* lines 149-151: `if not docs`
search_rag_no_documents ==
    /\ gq.pc = "retrieved"
    /\ gq.out = <<>>
    /\ gq' = [gq EXCEPT !.pc = "returned", !.response = NoInformation]
    /\ UNCHANGED lifecycle_vars

\* lines 153-159: generate_response_from_docs on the documents retrieved
search_rag_generate ==
    /\ gq.pc = "retrieved"
    /\ gq.out # <<>>
    /\ \E llm_type \in LLMType : \E llm \in create_llm(llm_type) : \E invoked \in ainvoke :
         LET response == generate_response_from_docs(gq.store, gq.out, llm, invoked)
         IN /\ llm = "raises" => invoked = "raises"
            /\ gq' = [gq EXCEPT
                        !.pc = IF response.kind = "raised" THEN "raised" ELSE "returned",
                        !.llm_type = llm_type,
                        !.llm = IF llm = "raises" THEN "create_llm_raises"
                                ELSE IF invoked = "raises" THEN "ainvoke_raises"
                                ELSE "returns",
                        !.response = response]
    /\ UNCHANGED lifecycle_vars

AnswerNext ==
    \/ search_rag_retrieve
    \/ search_rag_no_documents
    \/ search_rag_generate

SpecAnswer == AnswerInit /\ [][AnswerNext]_vars

\* ------------------------------------------------------------ db_mcp_server
rag_vars == <<vectorstore, _is_initialized, _initialization_lock, blob, ipc, tmp,
              attempt, create_rag_calls, restarts, rpc, rs, gq>>

DbInit ==
    /\ LifecycleInit
    /\ blob = BlobAbsent

\* prepare_classicmodels is running: it is synchronous, so the event loop
\* runs no other task until it has returned
DbRunning == \E c \in Callers : db.pc[c] \in {"setup", "download", "import"}

\* initialize_resources up to the call of prepare_classicmodels: the lock
\* is free whenever a task gets to run, `if _is_initialized: return`
db_initialize_resources(c) ==
    /\ db.pc[c] = "idle"
    /\ ~DbRunning
    /\ db._initialization_lock = 0
    /\ IF db._is_initialized
         THEN db' = [db EXCEPT !.pc[c] = "returned"]
         ELSE db' = [db EXCEPT !.pc[c] = "setup",
                               !._initialization_lock = c,
                               !.prepare_classicmodels_calls = @ + 1]
    /\ UNCHANGED rag_vars

\* _setup_database_and_user(): CREATE DATABASE IF NOT EXISTS, the user, the grants
db_setup_database_and_user(c) ==
    /\ db.pc[c] = "setup"
    /\ db' = [db EXCEPT !.pc[c] = "download",
                        !.database = IF @ = "empty" THEN "created" ELSE @]
    /\ UNCHANGED rag_vars

\* sql_script = _download_classicmodels_sql()
db_download_classicmodels_sql(c) ==
    /\ db.pc[c] = "download"
    /\ db' = [db EXCEPT !.pc[c] = "import"]
    /\ UNCHANGED rag_vars

\* _import_sql(sql_script); return "classicmodels import completed.";
\* back in initialize_resources: _is_initialized = True, the lock released
db_import_sql(c) ==
    /\ db.pc[c] = "import"
    /\ db' = [db EXCEPT !.pc[c] = "returned",
                        !.database = "imported",
                        !.message = "completed",
                        !._is_initialized = TRUE,
                        !._initialization_lock = 0]
    /\ UNCHANGED rag_vars

\* the exception of a step of prepare_classicmodels reaching initialize_resources
db_prepare_classicmodels_raises(c) ==
    /\ db.pc[c] \in {"setup", "download", "import"}
    /\ \E database \in IF db.pc[c] = "import" THEN {db.database, "partial"}
                                               ELSE {db.database} :
         db' = [db EXCEPT !.pc[c] = "raised",
                          !.database = database,
                          !.message = "failed",
                          !._initialization_lock = 0]
    /\ UNCHANGED rag_vars

\* a step of prepare_classicmodels raises: `except Exception` returns
\* f" Failed: {exc}"; back in initialize_resources: _is_initialized = True,
\* the lock released
db_prepare_classicmodels_fails(c) ==
    /\ db.pc[c] \in {"setup", "download", "import"}
    /\ \E database \in IF db.pc[c] = "import" THEN {db.database, "partial"}
                                               ELSE {db.database} :
         db' = [db EXCEPT !.pc[c] = "returned",
                          !.database = database,
                          !.message = "failed",
                          !._is_initialized = TRUE,
                          !._initialization_lock = 0]
    /\ UNCHANGED rag_vars

\* server_status: f" Server Status: initialized={_is_initialized}"
db_server_status(r) ==
    /\ ~DbRunning
    /\ db' = [db EXCEPT !.status[r] = IF db._is_initialized THEN "True" ELSE "False"]
    /\ UNCHANGED rag_vars

\* the server process is restarted: fresh globals, the database is kept
db_restart ==
    /\ db.restarts < MaxRestarts
    /\ db' = DbFresh(db.database, db.restarts + 1)
    /\ UNCHANGED rag_vars

DbNext ==
    \/ \E c \in Callers : db_initialize_resources(c)
    \/ \E c \in Callers : db_setup_database_and_user(c)
    \/ \E c \in Callers : db_download_classicmodels_sql(c)
    \/ \E c \in Callers : db_import_sql(c)
    \/ \E c \in Callers : db_prepare_classicmodels_fails(c)
    \/ \E r \in Readers : db_server_status(r)
    \/ db_restart

SpecDB == DbInit /\ [][DbNext]_vars

\* ===================================================================
\* Properties of the index lifecycle (specification Spec)
\* ===================================================================
Finished(c) == ipc[c] \in {"returned", "raised"}
Injective(s) == \A i, j \in DOMAIN s : s[i] = s[j] => i = j

\* C1: however many initialize_resources calls overlap, create_rag runs
\* exactly once in a process run and all finished calls have the same
\* outcome (all returned, or all raised).
C1_SingleFlight ==
    /\ create_rag_calls <= 1
    /\ \A c, d \in Callers : Finished(c) /\ Finished(d) => ipc[c] = ipc[d]

\* C2: once an initialization attempt has failed, no later call of the same
\* process run starts another build-or-load attempt (create_rag is not
\* invoked again).
C2_FailureTerminal ==
    [][(\E c \in Callers : ipc[c] = "raised")
         => create_rag_calls' <= create_rag_calls]_vars

\* C3: the index is observed either absent or fully ready: _is_initialized
\* is true exactly when vectorstore holds the (non-empty) index a completed
\* create_rag returned, which is the index persisted on disk; and a
\* rag_search call that found the flag set read documents of that index.
C3_AbsentOrReady ==
    /\ _is_initialized =>
         /\ vectorstore.kind = "index"
         /\ vectorstore.docs # <<>>
         /\ blob = BlobComplete(vectorstore.docs)
    /\ ~_is_initialized => vectorstore = None
    /\ \A r \in Readers :
         rs[r].ready => /\ _is_initialized
                        /\ Range(rs[r].docs) \subseteq DOMAIN vectorstore.docs

C3_Witness ==
    /\ _is_initialized
    /\ \E c \in Callers : ipc[c] = "raised"
    /\ \E r \in Readers : rpc[r] = "done" /\ rs[r].ready /\ rs[r].docs # <<>>

\* C4: an initialization that finds the blob present takes the load path
\* only: the loader, the splitter and the embedding of documents are not
\* invoked, the blob is not rewritten, and when it succeeds the index is the
\* one restored from the blob.
C4_BlobPresentLoadsOnly ==
    \A c \in Callers :
      attempt[c].sawBlob =>
        /\ ~attempt[c].fetched /\ ~attempt[c].split
        /\ ~attempt[c].embedded /\ ~attempt[c].persisted
        /\ blob = attempt[c].seen
        /\ attempt[c].error \in {"none", "load"}
        /\ ipc[c] = "returned" =>
             /\ _is_initialized
             /\ vectorstore = FAISS(attempt[c].seen.docs)

\* after a restart, the index found on disk is restored
C4_Witness ==
    /\ restarts = 1
    /\ \E c \in Callers :
         /\ attempt[c].sawBlob
         /\ ipc[c] = "returned"
         /\ vectorstore = FAISS(blob.docs)
    /\ blob.kind = "complete"

\* C5: when the loader yields no documents, initialize_resources raises,
\* nothing is persisted, the state is not marked ready by that call, and
\* every rag_search call made afterwards is rejected as not initialized.
C5_EmptyCorpus ==
    \A c \in Callers :
      attempt[c].error = "empty" =>
        /\ ipc[c] = "raised"
        /\ ~attempt[c].persisted
        /\ \A r \in Readers :
             rpc[r] # "idle" => rs[r].answer.kind = "not_initialized"

\* C6: when the blob exists and cannot be restored, the call raises and does
\* not fall back to a rebuild: the loader is not invoked, the blob is left
\* as it was, and with a corrupted blob the index is never marked ready.
C6_UnreadableBlob ==
    \A c \in Callers :
      attempt[c].error = "load" =>
        /\ ipc[c] = "raised"
        /\ attempt[c].sawBlob
        /\ ~attempt[c].fetched /\ ~attempt[c].split
        /\ ~attempt[c].embedded /\ ~attempt[c].persisted
        /\ blob = attempt[c].seen
        /\ blob.kind = "partial" => (~_is_initialized /\ vectorstore = None)

C6_Witness ==
    \E c \in Callers :
      /\ attempt[c].error = "load"
      /\ ipc[c] = "raised"
      /\ blob.kind = "partial"
      /\ \E d \in Callers : d # c /\ attempt[d].error = "load"

\* C7: a step in which an initialization attempt fails leaves vectorstore
\* and _is_initialized as they were: absent and false.
C7_FailureLeavesGlobals ==
    [][\A c \in Callers :
         (ipc[c] # "raised" /\ ipc'[c] = "raised") =>
           /\ vectorstore' = vectorstore
           /\ _is_initialized' = _is_initialized
           /\ vectorstore' = None
           /\ ~_is_initialized']_vars

C7_Witness ==
    /\ \E c \in Callers : ipc[c] = "raised" /\ attempt[c].error = "persist"
    /\ blob.kind = "partial"
    /\ vectorstore = None
    /\ ~_is_initialized

\* C8: a rag_search call made while initialization has not completed
\* successfully (never started, in progress, or failed) is answered "not
\* initialized" at once, without embedding, vector search or generation.
C8_NotReadyRejected ==
    \A r \in Readers :
      (rpc[r] # "idle" /\ rs[r].answer.kind # "status" /\ ~rs[r].ready) =>
        /\ rpc[r] = "done"
        /\ rs[r].answer.kind = "not_initialized"
        /\ ~rs[r].embedded /\ ~rs[r].searched /\ ~rs[r].generated
        /\ rs[r].docs = <<>>

\* rejected while one attempt is in progress and another has failed
C8_Witness ==
    /\ \E r \in Readers : /\ rpc[r] = "done" /\ ~rs[r].ready
                          /\ rs[r].answer.kind = "not_initialized"
    /\ _initialization_lock # 0
    /\ \E c \in Callers : ipc[c] = "raised"

\* ===================================================================
\* Properties of get_relevant_documents (specification SpecQuery)
\* ===================================================================
QuerySim(j) == cosine_similarity(embed_query(gq.query), embed_query(gq.store[j]))

\* C9: for 0 <= k <= fetch_k <= index size the result holds exactly k
\* documents, all among the fetch_k documents most similar to the query,
\* none twice.
C9_ExactlyK ==
    (/\ gq.pc = "done"
     /\ 0 <= gq.num_documents
     /\ gq.num_documents <= gq.fetch_k
     /\ gq.fetch_k <= Len(gq.store)) =>
        /\ Len(gq.out) = gq.num_documents
        /\ Injective(gq.out)
        /\ Range(gq.out) \subseteq Range(gq.docs)
        /\ Len(gq.docs) = gq.fetch_k
        /\ Injective(gq.docs)
        /\ Range(gq.docs) \subseteq DOMAIN gq.store
        /\ \A j \in Range(gq.docs), m \in DOMAIN gq.store \ Range(gq.docs) :
             QuerySim(j) >= QuerySim(m)

\* the MMR stage ran and did not return the plain top k
C9_Witness ==
    /\ gq.pc = "done"
    /\ gq.num_documents = 2
    /\ gq.fetch_k = 3
    /\ Len(gq.store) = 3
    /\ Len(gq.out) = 2
    /\ gq.out # SubSeq(gq.docs, 1, 2)

\* C10: with lambda_mult = 1.0 the result is, element by element, the first
\* k candidates of the similarity ranking (all of them when there are no
\* more than k, none when k <= 0).
C10_LambdaOneIsTopK ==
    (gq.pc = "done" /\ gq.lambda_mult = 10) =>
        gq.out = SubSeq(gq.docs, 1,
                        Min(IF gq.num_documents < 0 THEN 0 ELSE gq.num_documents,
                            Len(gq.docs)))

\* MMR ran over candidates of which two are equally similar to the query
C10_Witness ==
    /\ gq.pc = "done"
    /\ gq.lambda_mult = 10
    /\ gq.num_documents = 2
    /\ Len(gq.docs) = 3
    /\ QuerySim(gq.docs[1]) = QuerySim(gq.docs[2])
    /\ gq.store[gq.docs[1]] # gq.store[gq.docs[2]]
    /\ gq.out = <<gq.docs[1], gq.docs[2]>>

DocSim(i, j) == cosine_similarity(embed_query(gq.store[i]), embed_query(gq.store[j]))

\* the MMR stage ran, chose a second document, and had at least two to
\* choose it from
SecondStep ==
    /\ gq.pc = "done"
    /\ gq.num_documents >= 2
    /\ Len(gq.docs) > gq.num_documents
Remaining == Range(gq.docs) \ {gq.out[1]}

\* C11 as stated: with lambda_mult = 0.0 the second document selected is
\* not a remaining candidate of greatest similarity to the first one
\* (at least two candidates remain whenever the second step runs).
C11_NeverMostSimilar ==
    (SecondStep /\ gq.lambda_mult = 0) =>
        \E d \in Remaining : DocSim(d, gq.out[1]) > DocSim(gq.out[2], gq.out[1])

\* C11 amended: with lambda_mult = 0.0 the second document selected is a
\* remaining candidate of least similarity to the first one, the earliest
\* such candidate of the ranking; so it is a most similar one only when all
\* remaining candidates are equally similar to the first one.
C11_LeastSimilar ==
    (SecondStep /\ gq.lambda_mult = 0) =>
        /\ gq.out[2] \in Remaining
        /\ \A d \in Remaining : DocSim(gq.out[2], gq.out[1]) <= DocSim(d, gq.out[1])
        /\ \A i \in DOMAIN gq.docs :
             (gq.docs[i] \in Remaining
                /\ DocSim(gq.docs[i], gq.out[1]) = DocSim(gq.out[2], gq.out[1]))
             => \E j \in 1..i : gq.docs[j] = gq.out[2]
        /\ (\E d \in Remaining : DocSim(d, gq.out[1]) # DocSim(gq.out[2], gq.out[1]))
             => \E d \in Remaining : DocSim(d, gq.out[1]) > DocSim(gq.out[2], gq.out[1])

\* the second-ranked candidate is nearer to the first than the third is,
\* and the third is selected
C11_Witness ==
    /\ SecondStep /\ gq.lambda_mult = 0
    /\ Len(gq.docs) = 3
    /\ gq.out[1] = gq.docs[1]
    /\ DocSim(gq.docs[2], gq.docs[1]) > DocSim(gq.docs[3], gq.docs[1])
    /\ gq.out[2] = gq.docs[3]

\* C12: whenever more than k >= 1 candidates were found, for every
\* lambda_mult, the result holds k distinct documents and its first one is
\* the top-1 match: the first candidate of the ranking, which no document
\* of the index beats in similarity to the query.
C12_FirstIsTop1 ==
    (gq.pc = "done" /\ gq.num_documents >= 1 /\ Len(gq.docs) > gq.num_documents) =>
        /\ Len(gq.out) = gq.num_documents
        /\ Injective(gq.out)
        /\ gq.out[1] = gq.docs[1]
        /\ \A m \in DOMAIN gq.store : QuerySim(gq.out[1]) >= QuerySim(m)

\* three candidates, k = 2, lambda_mult = 0.7: MMR keeps the first and
\* prefers the third to the second
C12_Witness ==
    /\ gq.pc = "done"
    /\ gq.lambda_mult = lambda_mult_default
    /\ gq.num_documents = 2
    /\ Len(gq.docs) = 3
    /\ gq.out = <<gq.docs[1], gq.docs[3]>>

C14_NoExceptionPropagates ==
    (/\ gq.pc \in {"returned", "raised"}
     /\ gq.out # <<>>
     /\ gq.llm \in {"create_llm_raises", "ainvoke_raises"}) =>
        /\ gq.pc = "returned"
        /\ gq.response.kind \in {"generation_error", "page_contents"}

\* the (title, source) pairs of s, each once, in order of first appearance
RECURSIVE FirstAppearances(_)
FirstAppearances(s) ==
    IF s = <<>> THEN <<>>
    ELSE LET front == FirstAppearances(SubSeq(s, 1, Len(s) - 1))
         IN IF s[Len(s)] \in Range(front) THEN front ELSE Append(front, s[Len(s)])

\* C15: with return_sources, the source list of the text rag_search returns
\* holds each distinct (title, source) pair of the documents exactly once,
\* in order of first appearance.
C15_SourcesDeduplicated ==
    (gq.pc = "returned" /\ gq.out # <<>>) =>
        LET text == rag_search_text(search_rag_return(gq.response, gq.out, TRUE),
                                    TRUE, gq.store)
        IN /\ text.references
           /\ Injective(text.srcs)
           /\ text.srcs = FirstAppearances(
                              [i \in DOMAIN gq.out |-> metadata(gq.store, gq.out[i])])

\* retrieve, then synthesize, as two calls with the arguments of the
\* search_rag call and the same behaviour of create_llm and ainvoke
RetrieveThenSynthesize ==
    LET docs == get_relevant_documents(gq.query, gq.store, gq.docs,
                                       gq.num_documents, gq.lambda_mult)
        llm == IF gq.llm = "create_llm_raises" THEN "raises" ELSE "ChatOllama"
        invoked == IF gq.llm = "returns" THEN "returns" ELSE "raises"
    IN [docs |-> docs,
        response |-> IF docs = <<>> THEN NoInformation
                     ELSE generate_response_from_docs(gq.store, docs, llm, invoked)]

C16_ReadersLeaveIndex ==
    [][(restarts' = restarts /\ rpc' # rpc) =>
          /\ vectorstore' = vectorstore
          /\ _is_initialized' = _is_initialized
          /\ blob' = blob]_vars

\* a rag_search call answered with the generation error text while the
\* index is ready and persisted
C16_Witness ==
    /\ _is_initialized /\ vectorstore # None /\ blob.kind = "complete"
    /\ \E r \in Readers : rpc[r] = "done" /\ rs[r].answer.kind = "generation_error"

\* create_rag, called by c, has not yet returned or raised
InCreateRag(c) ==
    ipc[c] \in {"exists", "load", "fetch", "split", "embed", "persist", "assign"}

\* C18: at most one build-or-load attempt is in progress at any time, and
\* the call making it holds _initialization_lock.
C18_OneAttemptAtATime ==
    /\ Cardinality({c \in Callers : InCreateRag(c)}) <= 1
    /\ \A c \in Callers : InCreateRag(c) => _initialization_lock = c

\* one call is saving the index it built while another waits for the lock
C18_Witness ==
    \E c, d \in Callers : c # d /\ ipc[c] = "persist" /\ ipc[d] = "lock"

\* C19: once _is_initialized is set, no step of the process run replaces
\* or modifies vectorstore, clears _is_initialized, writes the persisted
\* index or invokes create_rag: later initialize_resources calls return
\* without doing any of it.
C19_ReadyIsFinal ==
    [][(_is_initialized /\ restarts' = restarts) =>
          /\ vectorstore' = vectorstore
          /\ _is_initialized'
          /\ blob' = blob
          /\ create_rag_calls' = create_rag_calls
          /\ \A c \in Callers : ~InCreateRag(c)']_vars

\* a call made after the index became ready has returned without create_rag
C19_Witness ==
    /\ _is_initialized
    /\ \E c, d \in Callers :
         /\ ipc[c] = "returned" /\ attempt[c].ran
         /\ ipc[d] = "returned" /\ ~attempt[d].ran

\* C20: on the build path the steps run in the order load the corpus,
\* reject an empty corpus, embed, persist, mark ready: each step has its
\* predecessors behind it, the index is never ready without being
\* persisted, and an attempt that failed before the persist step has
\* neither written the persisted index nor marked the index ready.
C20_BuildOrder ==
    /\ \A c \in Callers :
         LET a == attempt[c]
         IN /\ a.fetched => a.ran /\ ~a.sawBlob
            /\ a.split => a.fetched /\ a.error # "empty"
            /\ a.embedded => a.split
            /\ a.persisted => a.embedded /\ a.error = "none"
            /\ ipc[c] = "persist" => a.embedded /\ ~a.persisted
            /\ (ipc[c] \in {"assign", "returned"} /\ a.ran /\ ~a.sawBlob) => a.persisted
            /\ a.error \in {"empty", "loader", "embedding"} =>
                 /\ ipc[c] = "raised"
                 /\ ~a.persisted
                 /\ create_rag_calls = 1 => (blob = a.seen /\ ~_is_initialized)
    /\ _is_initialized => (blob.kind = "complete" /\ vectorstore = FAISS(blob.docs))

\* one attempt failed at the embedding step, the next built the index,
\* persisted it and marked it ready
C20_Witness ==
    /\ _is_initialized
    /\ \E c, d \in Callers :
         /\ attempt[c].error = "embedding"
         /\ ipc[d] = "returned" /\ attempt[d].persisted

\* ===================================================================
\* Progress of initialize_resources in one process run (specification SpecRun)
\* ===================================================================
\* C21: provided every step of an attempt ends, every initialize_resources
\* call that waits for the lock eventually returns or raises, and a call
\* that has returned or raised does not hold the lock: a failing holder
\* leaves no waiting call blocked.
C21_CallsEnd ==
    /\ [](\A c \in Callers : Finished(c) => _initialization_lock # c)
    /\ \A c \in Callers : (ipc[c] = "lock") ~> Finished(c)

\* the first holder of the lock has raised, and the call that waited for
\* it has since taken the lock and returned
C21_Witness ==
    /\ _initialization_lock = 0
    /\ \E c, d \in Callers :
         /\ ipc[c] = "raised"
         /\ ipc[d] = "returned" /\ attempt[d].ran

MmrOfFound ==
    maximal_marginal_relevance(
        embed_query(gq.query),
        [i \in DOMAIN gq.docs |-> embed_query(gq.store[gq.docs[i]])],
        gq.lambda_mult, gq.num_documents)

\* C23: when the search yields no more than k candidates (the index may
\* hold fewer than k documents), the result is the candidates themselves,
\* all of them, in their order of decreasing similarity to the query: the
\* MMR stage is not applied.
C23_FewCandidatesUnchanged ==
    (gq.pc = "done" /\ Len(gq.docs) <= gq.num_documents) =>
        /\ gq.out = gq.docs
        /\ Len(gq.out) = Min(gq.fetch_k, Len(gq.store))
        /\ \A i, j \in DOMAIN gq.out :
             i < j => QuerySim(gq.out[i]) >= QuerySim(gq.out[j])

\* as many candidates as k, returned as found, where the MMR stage would
\* have put them in another order
C23_Witness ==
    /\ gq.pc = "done"
    /\ Len(gq.docs) = gq.num_documents
    /\ gq.out = gq.docs
    /\ MmrOfFound # [i \in DOMAIN gq.docs |-> i]

\* ===================================================================
\* The MMR stage, step by step (specification SpecRerank)
\* ===================================================================
\* the documents selected before step t, and those still to choose from
SelectedBefore(t) == {gq.out[j] : j \in 1..(t - 1)}
RemainingAt(t) == Range(gq.docs) \ SelectedBefore(t)

\* lambda_mult * sim(query, d) - (1 - lambda_mult) * max over the selected s
\* of sim(d, s), the max being 0 while nothing is selected (times ten)
StepScore(d, t) ==
    gq.lambda_mult * QuerySim(d)
      - (10 - gq.lambda_mult)
          * (IF t = 1 THEN 0 ELSE SetMax({DocSim(d, s) : s \in SelectedBefore(t)}))

\* the place of candidate d in the ranking the search returned
Rank(d) == CHOOSE i \in DOMAIN gq.docs : gq.docs[i] = d

\* C24: the t-th document of the result is, of the candidates not selected
\* before, the one of highest score, the score being
\* lambda_mult * sim(query, d) - (1 - lambda_mult) * max_s sim(d, s) over
\* the documents s selected before (0 when there is none); among
\* candidates of equal highest score it is the first of the ranking.
C24_StepsMaximiseScore ==
    gq.pc = "done" =>
        /\ Len(gq.out) = gq.num_documents
        /\ \A t \in DOMAIN gq.out :
             /\ gq.out[t] \in RemainingAt(t)
             /\ \A d \in RemainingAt(t) :
                  \/ StepScore(gq.out[t], t) > StepScore(d, t)
                  \/ /\ StepScore(gq.out[t], t) = StepScore(d, t)
                     /\ Rank(gq.out[t]) <= Rank(d)

\* three of four candidates at lambda_mult = 0.7: the result is not the
\* first three of the ranking, the two documents selected before the third
\* step are not equally similar to the third, and a tie was broken by rank
C24_Witness ==
    /\ gq.pc = "done"
    /\ gq.lambda_mult = lambda_mult_default
    /\ Len(gq.docs) = 4 /\ gq.num_documents = 3
    /\ gq.out # SubSeq(gq.docs, 1, 3)
    /\ DocSim(gq.out[3], gq.out[1]) # DocSim(gq.out[3], gq.out[2])
    /\ \E t \in 2..3 : \E d \in RemainingAt(t) :
         d # gq.out[t] /\ StepScore(d, t) = StepScore(gq.out[t], t)

\* ===================================================================
\* Further properties of search_rag (specification SpecAnswer)
\* ===================================================================
\* C25: when no model is configured for the type asked for (any type but
\* OLLAMA, for which create_llm is meant to return None), the synthesis of
\* an answer from a non-empty document list does not fail: it returns the
\* page contents of the documents, in order, and ainvoke is not called.
C25_UnconfiguredReturnsDocuments ==
    (/\ gq.pc \in {"returned", "raised"}
     /\ gq.out # <<>>
     /\ gq.llm_type = "other") =>
        /\ gq.pc = "returned"
        /\ gq.response.kind = "page_contents"
        /\ gq.response.context = page_content(gq.store, gq.out)
        /\ ~gq.response.invoked

\* ===================================================================
\* The searches of get_relevant_documents (specification SpecQuery)
\* ===================================================================
\* C26: when the vector search raises AttributeError the candidates are
\* those of the text search with the same fetch_k (the min(fetch_k, index
\* size) documents nearest to the query, nearest first), and the k bound
\* and the MMR stage apply to them as to those of the vector search; when
\* the vector search raises anything else the call raises and returns no
\* document.
C26_AttributeErrorFallsBack ==
    /\ (gq.pc = "done" /\ gq.search = "text") =>
          /\ Len(gq.docs) = Min(gq.fetch_k, Len(gq.store))
          /\ Injective(gq.docs)
          /\ \A i \in DOMAIN gq.docs : \A m \in DOMAIN gq.store \ Range(gq.docs) :
               QuerySim(gq.docs[i]) >= QuerySim(m)
          /\ \A i, j \in DOMAIN gq.docs :
               i < j => QuerySim(gq.docs[i]) >= QuerySim(gq.docs[j])
          /\ gq.out = IF Len(gq.docs) > gq.num_documents
                        THEN [i \in DOMAIN MmrOfFound |-> gq.docs[MmrOfFound[i]]]
                        ELSE gq.docs
    /\ gq.search = "vector_raised" => (gq.pc = "raised" /\ gq.docs = <<>> /\ gq.out = <<>>)
    /\ gq.pc = "raised" => gq.search \in {"vector_raised", "embed_query_raised", "text_raised"}

\* the text search stood in for the vector search: two of the three
\* documents of the index were fetched and MMR kept one of them
C26_Witness ==
    /\ gq.pc = "done" /\ gq.search = "text"
    /\ Len(gq.store) = 3 /\ gq.fetch_k = 2 /\ gq.num_documents = 1
    /\ Len(gq.docs) = 2 /\ Len(gq.out) = 1

Max(a, b) == IF a >= b THEN a ELSE b

\* C27: for every k and fetch_k >= 1, k > fetch_k and k <= 0 included, the
\* documents retrieved are at most min(max(k, 0), fetch_k, index size) and
\* none occurs twice; for k <= 0 none is retrieved, and the call then
\* returns the no-information answer, which rag_search hands on as its
\* text, and does not raise.
C27_BoundsNotEnforced ==
    gq.pc \in {"retrieved", "returned", "raised"} =>
        /\ Len(gq.out) <= Min(Max(gq.num_documents, 0), Min(gq.fetch_k, Len(gq.store)))
        /\ Injective(gq.out)
        /\ gq.num_documents <= 0 =>
             /\ gq.out = <<>>
             /\ gq.pc # "raised"
             /\ gq.pc = "returned" =>
                  \A return_sources \in BOOLEAN :
                    LET text == rag_search_text(
                                    search_rag_return(gq.response, gq.out, return_sources),
                                    return_sources, gq.store)
                    IN text.response = NoInformation /\ text.srcs = <<>>

\* k = -1 on an index of three documents: answered with the
\* no-information message
C27_Witness ==
    /\ gq.pc = "returned"
    /\ gq.num_documents = -1
    /\ Len(gq.store) = 3 /\ Len(gq.docs) = 3
    /\ gq.response = NoInformation

\* ===================================================================
\* The persisted index across attempts (specification Spec)
\* ===================================================================
\* C28: across build attempts, succeeding or failing, the blob changes
\* only by a persist step that completes, which leaves a blob a later
\* initialization can restore the index from: no failing attempt leaves
\* behind a blob that is present and cannot be restored.
C28_BlobWrittenByCompletedPersist ==
    [][blob' # blob =>
          /\ blob'.kind = "complete"
          /\ \E c \in Callers :
               /\ ipc[c] = "persist" /\ ipc'[c] = "assign"
               /\ attempt'[c].persisted
               /\ blob' = BlobComplete(tmp[c])]_vars

\* C29: rag_status can be called in every state and answers in one step
\* that changes nothing but the call itself; the chunk count it reports is
\* that of the index when initialization has completed, and 0 in every
\* state where vectorstore is absent (before, during or after a failed
\* initialization), so a non-zero count is reported only once the index
\* is ready.
C29_StatusCountsReadyIndex ==
    /\ [](\A r \in Readers : rpc[r] = "idle" => ENABLED rag_status(r))
    /\ [][\A r \in Readers :
            (rpc[r] = "idle" /\ rs'[r].answer.kind = "status") =>
               /\ rpc'[r] = "done"
               /\ rs'[r].chunks = (IF _is_initialized THEN Len(vectorstore.docs) ELSE 0)
               /\ rs'[r].chunks > 0 => (_is_initialized /\ vectorstore # None)
               /\ vectorstore = None => rs'[r].chunks = 0
               /\ UNCHANGED <<vectorstore, _is_initialized, _initialization_lock, blob,
                              ipc, tmp, attempt, create_rag_calls>>]_vars

\* a status of 0 chunks after a failed attempt, with an index on disk
C29_Witness ==
    /\ \E r \in Readers : /\ rpc[r] = "done" /\ rs[r].answer.kind = "status"
                          /\ rs[r].chunks = 0
    /\ \E c \in Callers : ipc[c] = "raised"
    /\ blob.kind = "complete"
    /\ vectorstore = None

\* ===================================================================
\* initialize_resources of the DB server (specification SpecDB)
\* ===================================================================
\* C30: in the DB server, over concurrent and successive calls of
\* initialize_resources in one process, prepare_classicmodels runs once:
\* at most one call runs it, no call raises, and as soon as a call has
\* returned _is_initialized is true, whether the database setup completed
\* or failed; from then on prepare_classicmodels is not run again and
\* server_status answers initialized=True.
C30_DbSetupRunsOnce ==
    /\ [](/\ db.prepare_classicmodels_calls <= 1
          /\ Cardinality({c \in Callers : db.pc[c] \in {"setup", "download", "import"}}) <= 1
          /\ \A c \in Callers : db.pc[c] # "raised"
          /\ db.message # "none" => db._is_initialized
          /\ (\E c \in Callers : db.pc[c] = "returned") =>
               /\ db._is_initialized
               /\ db.prepare_classicmodels_calls = 1
               /\ db.message \in {"completed", "failed"})
    /\ [][(db._is_initialized /\ db'.restarts = db.restarts) =>
             /\ db'._is_initialized
             /\ db'.prepare_classicmodels_calls = db.prepare_classicmodels_calls
             /\ db'.message = db.message
             /\ db'.database = db.database
             /\ \A r \in Readers :
                  db'.status[r] # db.status[r] => db'.status[r] = "True"]_vars

\* the setup failed, every call has returned, prepare_classicmodels ran
\* once, and server_status has answered initialized=True
C30_Witness ==
    /\ db.message = "failed"
    /\ \A c \in Callers : db.pc[c] = "returned"
    /\ db.prepare_classicmodels_calls = 1
    /\ \E r \in Readers : db.status[r] = "True"
====
